---------------------------- MODULE Spec2Model ----------------------------
(***************************************************************************)
(* Purchase settlement of the gift marketplace.                            *)
(*                                                                         *)
(* Two servers are modelled:                                               *)
(*   - the file-backed server (src/server.js): every handler loads         *)
(*     db.json, mutates the object and saves it without an await in        *)
(*     between, so each handler's storage effect is one atomic step;       *)
(*   - the Supabase-backed server (src/unnamed/part_000): every storage    *)
(*     call is awaited, so handlers interleave at each await.              *)
(*                                                                         *)
(* Strings are sequences of symbols.  A symbol is either the colon ":" or  *)
(* a chunk of text that holds no colon, which is all that split(':') can   *)
(* tell apart.  Currency amounts are counted in hundredths (kopecks).      *)
(***************************************************************************)
EXTENDS Integers, Sequences, FiniteSets, Bags

VARIABLES
    now,        \* the value Date.now() returns
    db,         \* file-backed server: the content of db.json
    resp,       \* the last request answered: operation, argument, status, tgApi calls
    tables,     \* Supabase-backed server: the gifts, users and purchases tables
    procs,      \* Supabase-backed server: the handler invocations in flight
    faults      \* Supabase-backed server: the storage calls that have failed

vars == <<now, db, resp, tables, procs, faults>>

----------------------------------------------------------------------------
(* Bounds *)

\* create_gift requests stored by the file-backed server in one run
MaxCreates == 2

\* the highest star price of the pricing specification
MaxStars == 100

\* storage calls of the Supabase-backed server that fail in one run
MaxFaults == 1

----------------------------------------------------------------------------
(* Strings *)

Colon == ":"
\* the value of a destructured array element that is not there
Undefined == <<"undefined">>
EmptyStr == <<>>

Digits == <<"1", "2", "3", "4", "5", "6", "7", "8", "9">>

\* `gift-${Date.now()}`
GiftId(t) == <<"gift-", Digits[t]>>

\* the values Date.now() takes: two readings give both distinct ids and
\* requests served within the same millisecond
ClockValues == 1..2

GiftIds == {GiftId(t) : t \in ClockValues}

\* the seller and the buyers
Seller == <<"u1">>
Buyer == <<"u2">>
Buyer2 == <<"u3">>

\* `${giftId}:${buyerId}`
MakePayload(giftId, buyerId) == giftId \o <<Colon>> \o buyerId

\* index of the first sep in s, 0 when there is none
RECURSIVE IndexOf(_, _, _)
IndexOf(s, sep, i) ==
    IF i > Len(s) THEN 0
    ELSE IF s[i] = sep THEN i
    ELSE IndexOf(s, sep, i + 1)

\* String.prototype.split(sep): the pieces between the separators
RECURSIVE Split(_, _)
Split(s, sep) ==
    LET k == IndexOf(s, sep, 1) IN
    IF k = 0 THEN <<s>>
    ELSE <<SubSeq(s, 1, k - 1)>> \o Split(SubSeq(s, k + 1, Len(s)), sep)

\* array destructuring: element i, undefined when the array is shorter
Elem(parts, i) == IF i <= Len(parts) THEN parts[i] ELSE Undefined

HasColon(s) == \E i \in 1..Len(s) : s[i] = Colon

----------------------------------------------------------------------------
(* Inputs *)

\* stars / priceStars values that request bodies carry
StarInputs == {-1, 0, 2}

\* ownerId values of create_gift bodies; the empty string is falsy
OwnerInputs == {Seller, EmptyStr}

\* ids that Telegram logins carry
AuthIds == {Seller}

\* buyerId values of purchase bodies
BuyerInputs == {Buyer}

\* the two buyers that compete for the gifts of the file-backed server
Buyers == {Buyer, Buyer2}

\* invoice_payload values of successful_payment updates: the payloads of
\* invoices, and one that holds no colon
Payloads ==
    {MakePayload(g, u) : g \in GiftIds, u \in BuyerInputs} \cup {GiftId(1)}

\* webhook updates: sp says whether message.successful_payment is present
Updates ==
    {[sp |-> TRUE, payload |-> p] : p \in Payloads}
        \cup {[sp |-> FALSE, payload |-> EmptyStr]}

\* the successful_payment update of the invoice issued for (giftId, buyerId)
Confirmation(giftId, buyerId) ==
    [sp |-> TRUE, payload |-> MakePayload(giftId, buyerId)]

\* webhook updates of the file-backed server: the confirmations of the
\* second buyer's invoices as well
UpdatesF == Updates \cup {Confirmation(g, Buyer2) : g \in GiftIds}

\* what a tgApi call does: it resolves with the provider's JSON answer
\* (ok or an error object, which no caller looks at), or fetch / res.json()
\* rejects
TgOutcomes == {"ok", "throw"}

----------------------------------------------------------------------------
(* Utils *)

\* Amounts are fixed-point numbers: rubles are counted in hundredths, the
\* product stars * 1.5 * 1.04 in thousandths (1.5 is 15 tenths, 1.04 is 104
\* hundredths).

\* Number.prototype.toFixed(2): the hundredths nearest to x thousandths, a
\* half rounded away from zero
toFixed2(x) == IF x >= 0 THEN (x + 5) \div 10 ELSE -((-x + 5) \div 10)

\* the price without the 1.04 factor
calculateRublesNoFee(stars) == toFixed2(stars * 15 * 100)

\* +(stars * 1.5 * 1.04).toFixed(2), in hundredths
calculateRubles(stars) == toFixed2(stars * 15 * 104)

\* Math.round(rub * 100): rub * 100 counted in hundredths of a kopeck,
\* rounded to the nearest kopeck, a half rounded up
amountKopecks(rub) == (rub * 100 + 50) \div 100

\* Number(stars) || 1
NumberOr1(stars) == IF stars = 0 THEN 1 ELSE stars

\* f with key k set to v (k is added when absent)
Put(f, k, v) == [x \in DOMAIN f \cup {k} |-> IF x = k THEN v ELSE f[x]]

Response(op, arg, status, calls) ==
    [op |-> op, arg |-> arg, status |-> status, calls |-> calls]

Call(method, payload, amount) ==
    [method |-> method, payload |-> payload, amount |-> amount]

----------------------------------------------------------------------------
(* File-backed server, src/server.js *)

EmptyDB == [users |-> <<>>, gifts |-> <<>>, purchases |-> <<>>]

NewUser(id) == [id |-> id, stars |-> 0, gifts |-> <<>>]

\* number of create_gift requests stored so far
RECURSIVE SumLen(_, _)
SumLen(users, ids) ==
    IF ids = {} THEN 0
    ELSE LET u == CHOOSE x \in ids : TRUE
         IN Len(users[u].gifts) + SumLen(users, ids \ {u})

Created(d) == SumLen(d.users, DOMAIN d.users)

\* GET /auth
AuthFile(d, id, valid) ==
    IF ~valid THEN [db |-> d, status |-> 403]
    ELSE [db |-> [d EXCEPT !.users =
                    IF id \in DOMAIN d.users THEN d.users
                    ELSE Put(d.users, id, NewUser(id))],
          status |-> 302]

\* POST /api/create_gift
CreateGiftFile(d, t, ownerId, stars) ==
    IF ownerId = EmptyStr THEN [db |-> d, status |-> 400]
    ELSE
        LET id == GiftId(t)
            gift == [id |-> id, ownerId |-> ownerId, stars |-> NumberOr1(stars),
                     for_sale |-> FALSE, sold |-> FALSE]
            owner == IF ownerId \in DOMAIN d.users THEN d.users[ownerId]
                     ELSE NewUser(ownerId)
        IN [db |-> [d EXCEPT
                      !.gifts = Put(d.gifts, id, gift),
                      !.users = Put(d.users, ownerId,
                                    [owner EXCEPT !.gifts = Append(owner.gifts, id)])],
            status |-> 200]

\* POST /api/sell_gift
SellGiftFile(d, id, priceStars) ==
    IF id \notin DOMAIN d.gifts THEN [db |-> d, status |-> 404]
    ELSE [db |-> [d EXCEPT !.gifts[id] =
                    [@ EXCEPT !.for_sale = TRUE,
                              !.stars = IF priceStars # 0 THEN priceStars ELSE @]],
          status |-> 200]

\* the availability check without its sold test
NotAvailableNoSold(gifts, giftId) ==
    \/ giftId \notin DOMAIN gifts
    \/ ~gifts[giftId].for_sale

\* !gift || gift.sold || !gift.for_sale
NotAvailable(gifts, giftId) ==
    \/ giftId \notin DOMAIN gifts
    \/ gifts[giftId].sold
    \/ ~gifts[giftId].for_sale

\* POST /api/purchase
PurchaseFile(d, buyerId, giftId, out) ==
    IF NotAvailable(d.gifts, giftId) THEN [status |-> 400, calls |-> <<>>]
    ELSE
        LET rub == calculateRubles(d.gifts[giftId].stars)
            invoice == Call("sendInvoice", MakePayload(giftId, buyerId), amountKopecks(rub))
        IN [status |-> IF out = "throw" THEN 500 ELSE 200, calls |-> <<invoice>>]

\* the settlement check without its sold test
AlreadySettledNoSold(gifts, giftId) ==
    giftId \notin DOMAIN gifts

\* !gift || gift.sold
AlreadySettled(gifts, giftId) ==
    \/ giftId \notin DOMAIN gifts
    \/ gifts[giftId].sold

\* a settlement that takes every gift of the store off sale
SettleFileUnlistsAll(d, giftId, buyerId) ==
    LET gift == d.gifts[giftId] IN
    [d EXCEPT
       !.gifts = [h \in DOMAIN d.gifts |->
                    [d.gifts[h] EXCEPT !.sold = IF h = giftId THEN TRUE ELSE @,
                                       !.for_sale = FALSE]],
       !.users = IF gift.ownerId \in DOMAIN d.users
                 THEN [@ EXCEPT ![gift.ownerId].stars = @ + gift.stars]
                 ELSE @,
       !.purchases = Append(@, [giftId |-> giftId, buyerId |-> buyerId,
                                sellerId |-> gift.ownerId,
                                amountRUB |-> calculateRubles(gift.stars)])]

\* the settlement mutations of the webhook, up to saveDB
SettleFile(d, giftId, buyerId) ==
    LET gift == d.gifts[giftId] IN
    [d EXCEPT
       !.gifts[giftId] = [@ EXCEPT !.sold = TRUE, !.for_sale = FALSE],
       !.users = IF gift.ownerId \in DOMAIN d.users
                 THEN [@ EXCEPT ![gift.ownerId].stars = @ + gift.stars]
                 ELSE @,
       !.purchases = Append(@, [giftId |-> giftId, buyerId |-> buyerId,
                                sellerId |-> gift.ownerId,
                                amountRUB |-> calculateRubles(gift.stars)])]

\* POST /webhook; outB, outS: what the buyer's and the seller's sendMessage do
WebhookFile(d, update, outB, outS) ==
    IF ~update.sp THEN [db |-> d, status |-> 200, calls |-> <<>>]
    ELSE
        LET parts == Split(update.payload, Colon)
            giftId == Elem(parts, 1)
            buyerId == Elem(parts, 2)
        IN
        IF AlreadySettled(d.gifts, giftId) THEN [db |-> d, status |-> 200, calls |-> <<>>]
        ELSE
            LET gift == d.gifts[giftId]
                toBuyer == Call("sendMessage", EmptyStr, 0)
                toSeller == Call("sendMessage", EmptyStr, 0)
                hasSeller == gift.ownerId \in DOMAIN d.users
            IN [db |-> SettleFile(d, giftId, buyerId),
                status |-> IF outB = "throw" THEN 500 ELSE 200,
                calls |-> IF outB = "throw" \/ ~hasSeller THEN <<toBuyer>>
                          ELSE <<toBuyer, toSeller>>]

\* what a saveDB call does: fs.writeFileSync writes the file, or throws
SaveOutcomes == {"ok", "throw"}

\* a saveDB that leaves the handler's object in db.json even when the write
\* throws
saveDBKeeps(file, d, out) == d

\* saveDB(db): the content of db.json after the call.  A write that throws
\* is taken to fail before it touches the file (the file cannot be opened
\* for writing), so db.json keeps what it held.
saveDB(file, d, out) == IF out = "ok" THEN d ELSE file

\* POST /webhook with a saveDB that may throw: the exception reaches the
\* handler's catch before any sendMessage
WebhookFileSaving(d, update, outSave, outB, outS) ==
    LET r == WebhookFile(d, update, outB, outS) IN
    IF ~update.sp \/ AlreadySettled(d.gifts, Elem(Split(update.payload, Colon), 1))
    THEN r
    ELSE [db |-> saveDB(d, r.db, outSave),
          status |-> IF outSave = "throw" THEN 500 ELSE r.status,
          calls |-> IF outSave = "throw" THEN <<>> ELSE r.calls]

\* the handler invocations of the Supabase-backed server that may be in flight
\* together: two of /webhook
WebhookSlots == {"w1", "w2"}

Idle == [pc |-> "idle", giftId |-> EmptyStr, buyerId |-> EmptyStr, gift |-> <<>>]

NoResponse == [op |-> "none", arg |-> EmptyStr, status |-> 0, calls |-> <<>>]

Init ==
    /\ now = 1
    /\ db = EmptyDB
    /\ resp = NoResponse
    /\ tables = [gifts |-> <<>>, users |-> <<>>, purchases |-> EmptyBag]
    /\ procs = [s \in WebhookSlots |-> Idle]
    /\ faults = 0

Tick ==
    /\ now + 1 \in ClockValues
    /\ now' = now + 1
    /\ UNCHANGED <<faults, db, resp, tables, procs>>

AuthF ==
    \E id \in AuthIds, valid \in BOOLEAN :
        LET r == AuthFile(db, id, valid) IN
        /\ db' = r.db
        /\ resp' = Response("auth", id, r.status, <<>>)
        /\ UNCHANGED <<faults, now, tables, procs>>

CreateGiftF ==
    \E ownerId \in OwnerInputs, stars \in StarInputs :
        LET r == CreateGiftFile(db, now, ownerId, stars) IN
        /\ Created(db) < MaxCreates
        /\ db' = r.db
        /\ resp' = Response("create_gift", ownerId, r.status, <<>>)
        /\ UNCHANGED <<faults, now, tables, procs>>

SellGiftF ==
    \E id \in GiftIds, priceStars \in StarInputs :
        LET r == SellGiftFile(db, id, priceStars) IN
        /\ db' = r.db
        /\ resp' = Response("sell_gift", id, r.status, <<>>)
        /\ UNCHANGED <<faults, now, tables, procs>>

PurchaseF ==
    \E buyerId \in Buyers, giftId \in GiftIds, out \in TgOutcomes :
        LET r == PurchaseFile(db, buyerId, giftId, out) IN
        /\ resp' = Response("purchase", giftId, r.status, r.calls)
        /\ UNCHANGED <<faults, now, db, tables, procs>>

WebhookF ==
    \E update \in UpdatesF, outSave \in SaveOutcomes,
       outB \in TgOutcomes, outS \in TgOutcomes :
        LET r == WebhookFileSaving(db, update, outSave, outB, outS) IN
        /\ db' = r.db
        /\ resp' = Response("webhook", update.payload, r.status, r.calls)
        /\ UNCHANGED <<faults, now, tables, procs>>

NextFile == Tick \/ AuthF \/ CreateGiftF \/ SellGiftF \/ PurchaseF \/ WebhookF

SpecFile == Init /\ [][NextFile]_vars

----------------------------------------------------------------------------
(* Supabase-backed server, src/unnamed/part_000 *)

\* The rows of gifts and users are keyed by id, as the handlers read them
\* (.eq('id', ...).single()): an insert of an id that is there is refused by
\* the table, and the handler ignores the error it is handed.  The purchases
\* table is a bag of rows.  What /auth, /api/create_gift and /api/sell_gift
\* answer does not depend on the tables, and resp does not record it.  The
\* clock stands still in this specification: one gift id is created, the
\* other stays unknown to the tables.

\* supabase.from('users').upsert({ id, username, avatar }): stars keeps its
\* value, a new row starts with none
UpsertUser(users, id) ==
    IF id \in DOMAIN users THEN users ELSE Put(users, id, [stars |-> 0])

\* supabase.from('gifts').insert({...})
InsertGift(gifts, id, row) ==
    IF id \in DOMAIN gifts THEN gifts ELSE Put(gifts, id, row)

\* supabase.from('gifts').select('*').eq('id', giftId).single(): <<>> is a
\* null data
SelectGift(gifts, giftId) ==
    IF giftId \in DOMAIN gifts THEN <<gifts[giftId]>> ELSE <<>>

\* supabase.from('gifts').update({ sold: true, for_sale: false }).eq('id', giftId)
MarkSold(gifts, giftId) ==
    IF giftId \in DOMAIN gifts
    THEN [gifts EXCEPT ![giftId] = [@ EXCEPT !.sold = TRUE, !.for_sale = FALSE]]
    ELSE gifts

\* supabase.rpc("increment_stars", { uid, amount })
increment_stars(users, uid, amount) ==
    IF uid \in DOMAIN users
    THEN [users EXCEPT ![uid].stars = @ + amount]
    ELSE users

\* supabase.from('purchases').insert({...})
InsertPurchase(purchases, giftId, buyerId, gift) ==
    purchases (+) SetToBag({[gift_id |-> giftId, buyer_id |-> buyerId,
                       seller_id |-> gift.owner_id,
                       amount_rub |-> calculateRubles(gift.stars)]})

\* !gift || gift.sold || !gift.for_sale, on the data of the select
NotAvailableRow(data) ==
    data = <<>> \/ data[1].sold \/ ~data[1].for_sale

\* !gift || gift.sold, on the data of the select
AlreadySettledRow(data) ==
    data = <<>> \/ data[1].sold

\* the fields of the selected gift that the handler reads after its check
Used(gift) == [owner_id |-> gift.owner_id, stars |-> gift.stars]

Running(slot, pc) == procs[slot].pc = pc

Goto(slot, pc) == [procs EXCEPT ![slot].pc = pc]

Finish(slot) == [procs EXCEPT ![slot] = Idle]

\* GET /auth
AuthS ==
    \E id \in AuthIds, valid \in BOOLEAN :
        /\ tables' = IF valid THEN [tables EXCEPT !.users = UpsertUser(@, id)]
                      ELSE tables
        /\ UNCHANGED <<faults, now, db, resp, procs>>

\* POST /api/create_gift
CreateGiftS ==
    \E ownerId \in OwnerInputs, stars \in StarInputs :
        LET row == [owner_id |-> ownerId, stars |-> NumberOr1(stars),
                    for_sale |-> FALSE, sold |-> FALSE]
        IN
        /\ tables' = IF ownerId = EmptyStr THEN tables
                      ELSE [tables EXCEPT !.gifts = InsertGift(@, GiftId(now), row)]
        /\ UNCHANGED <<faults, now, db, resp, procs>>

\* POST /api/sell_gift
SellGiftS ==
    \E id \in GiftIds, priceStars \in StarInputs :
        /\ tables' = IF id \in DOMAIN tables.gifts
                      THEN [tables EXCEPT !.gifts[id] =
                              [@ EXCEPT !.for_sale = TRUE, !.stars = priceStars]]
                      ELSE tables
        /\ UNCHANGED <<faults, now, db, resp, procs>>

\* POST /api/purchase.  The handler writes nothing: what it answers is decided
\* by the data the select hands it, so its steps are taken at that moment.
\* Status 0 is a request that is never answered (sendInvoice rejects and
\* nothing catches it).
PurchaseS ==
    \E buyerId \in BuyerInputs, giftId \in GiftIds, out \in TgOutcomes :
        LET data == SelectGift(tables.gifts, giftId)
            rub == calculateRubles(data[1].stars)
            invoice == Call("sendInvoice", MakePayload(giftId, buyerId),
                            amountKopecks(rub))
        IN
        /\ resp' = IF NotAvailableRow(data)
                    THEN Response("purchase", giftId, 400, <<>>)
                    ELSE Response("purchase", giftId,
                                  IF out = "throw" THEN 0 ELSE 200, <<invoice>>)
        /\ UNCHANGED <<faults, now, db, tables, procs>>

\* POST /webhook, up to the await of the select
WebhookStartS(slot) ==
    \E update \in Updates :
        LET parts == Split(update.payload, Colon) IN
        /\ Running(slot, "idle")
        /\ IF update.sp
           THEN /\ procs' = [procs EXCEPT ![slot] =
                               [pc |-> "select", giftId |-> Elem(parts, 1),
                                buyerId |-> Elem(parts, 2), gift |-> <<>>]]
                /\ resp' = resp
           ELSE /\ procs' = procs
                /\ resp' = Response("webhook", update.payload, 200, <<>>)
        /\ UNCHANGED <<faults, now, db, tables>>

\* POST /webhook: the select answers, the handler decides and sends the update
WebhookSelectS(slot) ==
    LET p == procs[slot]
        data == SelectGift(tables.gifts, p.giftId)
    IN
    /\ Running(slot, "select")
    /\ IF AlreadySettledRow(data)
       THEN /\ procs' = Finish(slot)
            /\ resp' = Response("webhook", p.giftId, 200, <<>>)
       ELSE /\ procs' = [procs EXCEPT ![slot].pc = "update",
                                      ![slot].gift = <<Used(data[1])>>]
            /\ resp' = resp
    /\ UNCHANGED <<faults, now, db, tables>>

\* POST /webhook: update gifts
WebhookUpdateS(slot) ==
    /\ Running(slot, "update")
    /\ tables' = [tables EXCEPT !.gifts = MarkSold(@, procs[slot].giftId)]
    /\ procs' = Goto(slot, "rpc")
    /\ UNCHANGED <<faults, now, db, resp>>

\* POST /webhook: rpc increment_stars
WebhookRpcS(slot) ==
    LET gift == procs[slot].gift[1] IN
    /\ Running(slot, "rpc")
    /\ tables' = [tables EXCEPT !.users = increment_stars(@, gift.owner_id, gift.stars)]
    /\ procs' = Goto(slot, "insert")
    /\ UNCHANGED <<faults, now, db, resp>>

\* POST /webhook: insert purchases, then the two sendMessage calls and the
\* answer, none of which touches the tables.  Status 0 is a request that is
\* never answered (a sendMessage rejects and nothing catches it).
WebhookInsertS(slot) ==
    \E outB \in TgOutcomes, outS \in TgOutcomes :
        LET p == procs[slot]
            toBuyer == Call("sendMessage", EmptyStr, 0)
            toSeller == Call("sendMessage", EmptyStr, 0)
        IN
        /\ Running(slot, "insert")
        /\ tables' = [tables EXCEPT !.purchases =
                         InsertPurchase(@, p.giftId, p.buyerId, p.gift[1])]
        /\ procs' = Finish(slot)
        /\ resp' = Response("webhook", p.giftId,
                             IF outB = "throw" \/ outS = "throw" THEN 0 ELSE 200,
                             IF outB = "throw" THEN <<toBuyer>>
                             ELSE <<toBuyer, toSeller>>)
        /\ UNCHANGED <<faults, now, db>>

WebhookS ==
    \E slot \in WebhookSlots :
        \/ WebhookStartS(slot)
        \/ WebhookSelectS(slot)
        \/ WebhookUpdateS(slot)
        \/ WebhookRpcS(slot)
        \/ WebhookInsertS(slot)

NextSupa == AuthS \/ CreateGiftS \/ SellGiftS \/ PurchaseS \/ WebhookS

SpecSupa == Init /\ [][NextSupa]_vars

----------------------------------------------------------------------------
(* Properties of the file-backed server *)

\* the purchase records of gift g
RecordsOf(purchases, g) == {i \in 1..Len(purchases) : purchases[i].giftId = g}

\* C1: the purchases list holds at most one record for any giftId
C1_AtMostOnePurchasePerGift ==
    \A g \in GiftIds : Cardinality(RecordsOf(db.purchases, g)) <= 1

\* the webhook handled twice in succession, the second time on the state the
\* first left
WebhookTwice(d, update, o1, o2, o3, o4) ==
    LET r1 == WebhookFile(d, update, o1, o2)
        r2 == WebhookFile(r1.db, update, o3, o4)
    IN [once |-> r1, twice |-> r2]

\* C3: handling a successful_payment event twice in succession leaves the
\* gifts, balances and purchases that handling it once leaves, and both
\* invocations answer 200
C3_WebhookIdempotent ==
    \A update \in Updates, o1 \in TgOutcomes, o2 \in TgOutcomes,
       o3 \in TgOutcomes, o4 \in TgOutcomes :
        update.sp =>
            LET r == WebhookTwice(db, update, o1, o2, o3, o4) IN
            /\ r.twice.db = r.once.db
            /\ r.once.status = 200
            /\ r.twice.status = 200

\* C4: every gift with sold = true has for_sale = false
C4_SoldNotForSale ==
    \A g \in DOMAIN db.gifts : db.gifts[g].sold => ~db.gifts[g].for_sale

\* C6: once the gift with a given id has sold = true, no step yields a state
\* in which the gift with that id has sold = false
C6_SoldMonotonic ==
    [][\A g \in DOMAIN db.gifts :
          db.gifts[g].sold => (g \in DOMAIN db'.gifts /\ db'.gifts[g].sold)]_vars

\* C7: a user's star balance is non-negative, no step decreases it, and only
\* the webhook changes it
C7_BalanceNeverDecreases ==
    [][\A u \in DOMAIN db.users :
          /\ u \in DOMAIN db'.users
          /\ db'.users[u].stars >= db.users[u].stars
          /\ db'.users[u].stars >= 0
          /\ (db'.users[u].stars # db.users[u].stars => resp'.op = "webhook")]_vars

\* C8: a successful_payment event whose invoice_payload holds no colon
\* mutates no gift, user or purchase record and is answered 200
C8_NoColonNoMutation ==
    \A update \in Updates, outB \in TgOutcomes, outS \in TgOutcomes :
        (update.sp /\ ~HasColon(update.payload)) =>
            LET r == WebhookFile(db, update, outB, outS) IN
            /\ r.db = db
            /\ r.status = 200

\* C9: whenever the webhook has committed a settlement it answers 200,
\* whatever the two sendMessage calls do
C9_CommittedIsAcknowledged ==
    \A update \in Updates, outB \in TgOutcomes, outS \in TgOutcomes :
        LET r == WebhookFile(db, update, outB, outS) IN
        r.db # db => r.status = 200

\* C10: a purchase of a gift that does not exist, is sold or is not for sale
\* is answered 400 without a sendInvoice call, and an invoice is sent only
\* for a gift that exists with for_sale = true and sold = false.  (purchase
\* leaves db alone, so db is still the store the request was decided on.)
C10_PurchaseOnlyWhenAvailable ==
    resp.op = "purchase" =>
        LET g == resp.arg
            exists == g \in DOMAIN db.gifts
        IN
        /\ (~exists \/ db.gifts[g].sold \/ ~db.gifts[g].for_sale)
              => (resp.status = 400 /\ resp.calls = <<>>)
        /\ resp.calls # <<>>
              => /\ exists /\ db.gifts[g].for_sale /\ ~db.gifts[g].sold
                 /\ resp.calls[1].method = "sendInvoice"
                 /\ resp.status # 400

\* a sold gift that was listed again is refused
C10_Witness ==
    /\ resp.op = "purchase"
    /\ resp.status = 400
    /\ resp.arg \in DOMAIN db.gifts
    /\ db.gifts[resp.arg].sold
    /\ db.gifts[resp.arg].for_sale

----------------------------------------------------------------------------
(* Two buyers of one gift, file-backed server *)

\* two updates handled one after the other, the second on the state the
\* first left
WebhookThen(d, u1, u2, o1, o2, o3, o4) ==
    LET r1 == WebhookFile(d, u1, o1, o2)
        r2 == WebhookFile(r1.db, u2, o3, o4)
    IN [first |-> r1, second |-> r2]

\* C11: when two different buyers are both issued an invoice for the same
\* available gift (which changes nothing) and both confirmations are then
\* handled, the first one settles the gift: one purchase record naming its
\* buyer is appended and the seller is credited once; the second one changes
\* nothing and is answered 200
C11_TwoBuyersOneSettlement ==
    \A g \in GiftIds, b1 \in Buyers, b2 \in Buyers,
       o1 \in TgOutcomes, o2 \in TgOutcomes :
        (b1 # b2 /\ ~NotAvailable(db.gifts, g)) =>
            LET i1 == PurchaseFile(db, b1, g, "ok")
                i2 == PurchaseFile(db, b2, g, "ok")
                r == WebhookThen(db, Confirmation(g, b1), Confirmation(g, b2),
                                 o1, o2, o1, o2)
                after == r.first.db
                owner == db.gifts[g].ownerId
                n == Len(db.purchases)
            IN
            /\ i1.calls[1].payload = MakePayload(g, b1)
            /\ i2.calls[1].payload = MakePayload(g, b2)
            /\ after.gifts[g].sold
            /\ Len(after.purchases) = n + 1
            /\ SubSeq(after.purchases, 1, n) = db.purchases
            /\ after.purchases[n + 1].giftId = g
            /\ after.purchases[n + 1].buyerId = b1
            /\ owner \in DOMAIN db.users
            /\ after.users[owner].stars = db.users[owner].stars + db.gifts[g].stars
            /\ r.second.db = after
            /\ r.second.status = 200
            /\ r.second.calls = <<>>

\* the confirmation of the second buyer was answered 200 while the one
\* record of the gift names the first buyer
C11_Witness ==
    \E g \in GiftIds, b1 \in Buyers, b2 \in Buyers :
        /\ b1 # b2
        /\ resp = Response("webhook", MakePayload(g, b2), 200, <<>>)
        /\ g \in DOMAIN db.gifts
        /\ db.gifts[g].sold
        /\ Cardinality(RecordsOf(db.purchases, g)) = 1
        /\ \A i \in RecordsOf(db.purchases, g) : db.purchases[i].buyerId = b1

----------------------------------------------------------------------------
(* Pricing, file-backed server *)

\* the star prices the pricing specification lists a gift at
PriceInputs == 1..MaxStars

\* the store after create_gift and sell_gift of one gift at s stars
Listed(s) ==
    SellGiftFile(CreateGiftFile(EmptyDB, 1, Seller, s).db, GiftId(1), s).db

InitPrice ==
    /\ now = 1
    /\ db \in {Listed(s) : s \in PriceInputs}
    /\ resp = NoResponse
    /\ tables = [gifts |-> <<>>, users |-> <<>>, purchases |-> EmptyBag]
    /\ procs = [s \in WebhookSlots |-> Idle]
    /\ faults = 0

NextPrice == PurchaseF \/ WebhookF

SpecPrice == InitPrice /\ [][NextPrice]_vars

\* C12: for a gift priced at s stars, s a positive integer, the amount of
\* the invoice is 156 * s kopecks, and the purchase record holds the same
\* amount counted in rubles (156 * s hundredths of a ruble)
C12_InvoiceAmount ==
    /\ (resp.op = "purchase" /\ resp.calls # <<>>) =>
          resp.calls[1].amount = 156 * db.gifts[resp.arg].stars
    /\ \A i \in 1..Len(db.purchases) :
          LET rec == db.purchases[i] IN
          /\ db.gifts[rec.giftId].stars \in PriceInputs
          /\ rec.amountRUB = 156 * db.gifts[rec.giftId].stars
          /\ amountKopecks(rec.amountRUB) = 156 * db.gifts[rec.giftId].stars

\* a gift of 100 stars was invoiced at 15600 kopecks
C12_Witness ==
    /\ resp.op = "purchase"
    /\ resp.calls # <<>>
    /\ db.gifts[resp.arg].stars = 100
    /\ resp.calls[1].amount = 15600

----------------------------------------------------------------------------
(* A failing saveDB, file-backed server *)

----------------------------------------------------------------------------
(* Ledger, lifecycle, ids and prices, file-backed server *)

\* the sum of amountRUB over the purchase records that name u as sellerId
RECURSIVE CreditedTo(_, _)
CreditedTo(purchases, u) ==
    IF purchases = <<>> THEN 0
    ELSE (IF Head(purchases).sellerId = u THEN Head(purchases).amountRUB ELSE 0)
         + CreditedTo(Tail(purchases), u)

\* C16: in every persisted state a gift is sold if and only if exactly one
\* purchase record holds its giftId, and every user's star balance is the
\* sum of the star prices credited by the records naming the user as
\* sellerId (compared as amounts: a record holds the price of its stars)
C16_LedgerConsistent ==
    /\ \A g \in DOMAIN db.gifts :
          db.gifts[g].sold <=> Cardinality(RecordsOf(db.purchases, g)) = 1
    /\ \A u \in DOMAIN db.users :
          calculateRubles(db.users[u].stars) = CreditedTo(db.purchases, u)

\* C17: a step sets a gift's sold flag only if the gift has for_sale = true
\* in the state the step starts from
C17_SoldOnlyIfListed ==
    [][\A g \in DOMAIN db.gifts :
          (~db.gifts[g].sold /\ g \in DOMAIN db'.gifts /\ db'.gifts[g].sold)
              => db.gifts[g].for_sale]_vars

\* C19: every create_gift that stores a gift stores it under an id that no
\* gift of the store has: the store gains an id
C19_CreateNeverOverwrites ==
    [][Created(db') > Created(db) =>
          Cardinality(DOMAIN db'.gifts) = Cardinality(DOMAIN db.gifts) + 1]_vars

\* C20: the star price of every gift is a positive integer
C20_PricePositive ==
    \A g \in DOMAIN db.gifts : db.gifts[g].stars > 0

----------------------------------------------------------------------------
(* Frame of a settlement, file-backed server *)

\* the store after the buyer has logged in: two users are known when the
\* seller's gifts are settled
InitFrame ==
    /\ now = 1
    /\ db = AuthFile(EmptyDB, Buyer, TRUE).db
    /\ resp = NoResponse
    /\ tables = [gifts |-> <<>>, users |-> <<>>, purchases |-> EmptyBag]
    /\ procs = [s \in WebhookSlots |-> Idle]
    /\ faults = 0

SpecFrame == InitFrame /\ [][NextFile]_vars

----------------------------------------------------------------------------
(* From the invoice to the purchase record, file-backed server *)

\* buyerId values of purchase bodies, which the handler takes as they come:
\* the two buyers, and an id that holds a colon
TripBuyers == Buyers \cup {<<"u4", Colon, "x">>}

\* the invoice that purchase sends for (giftId, buyerId)
InvoiceFor(d, giftId, buyerId) == PurchaseFile(d, buyerId, giftId, "ok").calls[1]

\* the successful_payment update of an invoice: the provider hands its
\* payload back as it was
ConfirmationOf(invoice) == [sp |-> TRUE, payload |-> invoice.payload]

\* C21: when the confirmation of the invoice issued for (giftId, buyerId) is
\* settled, the purchase record appended holds that giftId and that buyerId,
\* for every buyerId that purchase accepts
C21_PayloadRoundTrip ==
    \A g \in GiftIds, b \in TripBuyers, outB \in TgOutcomes, outS \in TgOutcomes :
        ~NotAvailable(db.gifts, g) =>
            LET r == WebhookFile(db, ConfirmationOf(InvoiceFor(db, g, b)), outB, outS)
                n == Len(db.purchases)
            IN
            /\ Len(r.db.purchases) = n + 1
            /\ r.db.purchases[n + 1].giftId = g
            /\ r.db.purchases[n + 1].buyerId = b

\* C22: the amount of the purchase record and the stars credited to the
\* seller are those of the invoice whose confirmation is settled, also when
\* sell_gift is called for the gift between the invoice and the confirmation
C22_SettledEqualsInvoiced ==
    \A g \in GiftIds, b \in Buyers, priceStars \in StarInputs,
       outB \in TgOutcomes, outS \in TgOutcomes :
        ~NotAvailable(db.gifts, g) =>
            LET invoice == InvoiceFor(db, g, b)
                relisted == SellGiftFile(db, g, priceStars).db
                r == WebhookFile(relisted, ConfirmationOf(invoice), outB, outS)
                owner == db.gifts[g].ownerId
                n == Len(db.purchases)
                credit == r.db.users[owner].stars - db.users[owner].stars
            IN
            /\ Len(r.db.purchases) = n + 1
            /\ amountKopecks(r.db.purchases[n + 1].amountRUB) = invoice.amount
            /\ amountKopecks(calculateRubles(credit)) = invoice.amount

----------------------------------------------------------------------------
(* Properties of the Supabase-backed server *)

\* the number of rows of S, each counted with its copies
RECURSIVE CountRows(_, _)
CountRows(S, purchases) ==
    IF S = {} THEN 0
    ELSE LET r == CHOOSE x \in S : TRUE
         IN CopiesIn(r, purchases) + CountRows(S \ {r}, purchases)

\* the sum of amount_rub over the rows of S, each counted with its copies
RECURSIVE SumAmounts(_, _)
SumAmounts(S, purchases) ==
    IF S = {} THEN 0
    ELSE LET r == CHOOSE x \in S : TRUE
         IN CopiesIn(r, purchases) * r.amount_rub + SumAmounts(S \ {r}, purchases)

\* the number of purchases rows of gift g
RowCount(purchases, g) ==
    CountRows({r \in BagToSet(purchases) : r.gift_id = g}, purchases)

\* the amounts of the purchases rows that name u as seller
SoldFor(purchases, u) ==
    SumAmounts({r \in BagToSet(purchases) : r.seller_id = u}, purchases)

\* no webhook invocation is in flight
Quiescent == \A s \in WebhookSlots : procs[s].pc = "idle"

\* C2: confirmations for the same giftId handled concurrently settle the gift
\* once: when they have all finished the gift has one purchases row.  (Every
\* invocation that passes the sold check does one update, one increment_stars
\* and one insert, so the rows count the sold transitions and the credits.)
C2_ConcurrentSettleOnce ==
    Quiescent => \A g \in GiftIds : RowCount(tables.purchases, g) <= 1

\* C5: the settlement is one atomic unit: in no state is a gift sold while
\* its purchases row is missing or a seller's balance differs from what the
\* purchases rows credit
C5_SettlementAtomic ==
    /\ \A g \in DOMAIN tables.gifts :
          tables.gifts[g].sold => RowCount(tables.purchases, g) >= 1
    /\ \A u \in DOMAIN tables.users :
          calculateRubles(tables.users[u].stars) = SoldFor(tables.purchases, u)

----------------------------------------------------------------------------
(* Supabase-backed server with storage calls that fail *)

\* An awaited storage call is applied and resolves, or it fails.  A call
\* that fails is not applied; it either resolves with an error object, which
\* no handler reads, so the handler goes on, or it rejects (the process may
\* also stop there), which ends the invocation: nothing catches it and the
\* request is never answered (status 0).  The provider delivers a
\* confirmation again for as long as it likes, one delivery at a time.

\* the slot of the deliveries
RetrySlot == "w1"

\* a storage call may still fail in this run
MayFail == faults < MaxFaults

\* an awaited storage call of the invocation rejects
WebhookAbortX(slot) ==
    /\ procs[slot].pc \in {"select", "update", "rpc", "insert"}
    /\ MayFail
    /\ faults' = faults + 1
    /\ procs' = Finish(slot)
    /\ resp' = Response("webhook", procs[slot].giftId, 0, <<>>)
    /\ UNCHANGED <<now, db, tables>>

\* the select resolves with an error: data is null, the handler answers 200
WebhookSelectErrX(slot) ==
    /\ Running(slot, "select")
    /\ MayFail
    /\ faults' = faults + 1
    /\ procs' = Finish(slot)
    /\ resp' = Response("webhook", procs[slot].giftId, 200, <<>>)
    /\ UNCHANGED <<now, db, tables>>

\* update gifts resolves with an error: the row keeps its flags
WebhookUpdateErrX(slot) ==
    /\ Running(slot, "update")
    /\ MayFail
    /\ faults' = faults + 1
    /\ procs' = Goto(slot, "rpc")
    /\ UNCHANGED <<now, db, resp, tables>>

\* rpc increment_stars resolves with an error: the balance keeps its value
WebhookRpcErrX(slot) ==
    /\ Running(slot, "rpc")
    /\ MayFail
    /\ faults' = faults + 1
    /\ procs' = Goto(slot, "insert")
    /\ UNCHANGED <<now, db, resp, tables>>

\* insert purchases resolves with an error: no row is added, the handler
\* sends its messages and answers
WebhookInsertErrX(slot) ==
    \E outB \in TgOutcomes, outS \in TgOutcomes :
        LET toBuyer == Call("sendMessage", EmptyStr, 0)
            toSeller == Call("sendMessage", EmptyStr, 0)
        IN
        /\ Running(slot, "insert")
        /\ MayFail
        /\ faults' = faults + 1
        /\ procs' = Finish(slot)
        /\ resp' = Response("webhook", procs[slot].giftId,
                             IF outB = "throw" \/ outS = "throw" THEN 0 ELSE 200,
                             IF outB = "throw" THEN <<toBuyer>>
                             ELSE <<toBuyer, toSeller>>)
        /\ UNCHANGED <<now, db, tables>>

\* the steps of a running invocation whose storage call works
WebhookStepS(slot) ==
    \/ WebhookSelectS(slot)
    \/ WebhookUpdateS(slot)
    \/ WebhookRpcS(slot)
    \/ WebhookInsertS(slot)

\* the steps of a running invocation whose storage call fails
WebhookStepX(slot) ==
    \/ WebhookAbortX(slot)
    \/ WebhookSelectErrX(slot)
    \/ WebhookUpdateErrX(slot)
    \/ WebhookRpcErrX(slot)
    \/ WebhookInsertErrX(slot)

WebhookRetry ==
    \/ WebhookStartS(RetrySlot)
    \/ WebhookStepS(RetrySlot)
    \/ WebhookStepX(RetrySlot)

NextRetry == AuthS \/ CreateGiftS \/ SellGiftS \/ PurchaseS \/ WebhookRetry

SpecRetry == Init /\ [][NextRetry]_vars

\* a confirmation of gift g is delivered
Redeliver(g) ==
    /\ WebhookStartS(RetrySlot)
    /\ procs'[RetrySlot].pc = "select"
    /\ procs'[RetrySlot].giftId = g

\* a running invocation goes on, the provider delivers the confirmation of
\* each gift again and again, and at most MaxFaults storage calls fail
SpecRetryFair ==
    /\ Init
    /\ [][NextRetry]_vars
    /\ WF_vars(WebhookStepS(RetrySlot))
    /\ \A g \in GiftIds : SF_vars(Redeliver(g))

\* gift g is marked sold, it has no purchases row and no invocation is running
PartlySettled(g) ==
    /\ procs[RetrySlot].pc = "idle"
    /\ g \in DOMAIN tables.gifts
    /\ tables.gifts[g].sold
    /\ RowCount(tables.purchases, g) = 0

\* C13: when the processing of a confirmation has failed after the gift row
\* was updated to sold and before the purchases insert completed, then, the
\* confirmation being delivered again and again and the failures having
\* stopped, the gift eventually has its purchases row
C13_NoLostCredit ==
    \A g \in GiftIds : PartlySettled(g) ~> (RowCount(tables.purchases, g) >= 1)

\* C14: a step in which one of the three settlement storage calls fails does
\* not answer 200, and the gift of the invocation is not marked sold then
\* (the invocation found it unsold and no other one is running, so a sold
\* flag is the committed update of this invocation)
C14_FailureCommitsNothing ==
    [][(faults' # faults /\ procs[RetrySlot].pc \in {"update", "rpc", "insert"}) =>
          /\ ~(resp' # resp /\ resp'.status = 200)
          /\ ~tables'.gifts[procs[RetrySlot].giftId].sold]_vars

=============================================================================
